---- MODULE Spec2Model ----
(***************************************************************************)
(* Model of the authentication + RBAC plugin of the monorepo:              *)
(*   packages/elysia/src/plugins/auth.plugin.ts (AuthPlugin, rbac macro,   *)
(*   requireRoles, requirePermissions), its second variant of the same     *)
(*   plugin (macro without length checks), the RoleGuard / PermissionGuard *)
(*   helpers and UserRepository.UserInformation.                           *)
(***************************************************************************)
EXTENDS Integers, Sequences, FiniteSets, TLC

(***************************************************************************)
(* Bounds                                                                  *)
(***************************************************************************)
\* longest role / permission list of an Identity or of a requirement
MaxListLen == 2
\* number of requests one behaviour receives
MaxRequests == 2
\* number of changes the environment makes to storage and cache
MaxEnvOps == 1

(***************************************************************************)
(* Domains                                                                 *)
(***************************************************************************)
RoleNames == {"superuser", "admin", "moderator"}
PermissionNames == {"users.read", "users.delete"}

\* sequences over S of length at most n
RECURSIVE SeqsUpTo(_, _)
SeqsUpTo(S, n) ==
  IF n = 0 THEN {<<>>}
  ELSE LET shorter == SeqsUpTo(S, n - 1)
       IN  shorter \cup {Append(s, x) : s \in {t \in shorter : Len(t) = n - 1}, x \in S}

\* sequences without repeated elements (rows of a table with a unique key)
NoDup(s) == \A i, j \in DOMAIN s : i # j => s[i] # s[j]

RoleLists == SeqsUpTo(RoleNames, MaxListLen)
PermissionLists == SeqsUpTo(PermissionNames, MaxListLen)

\* user: UserInformation | null
Null == [null |-> TRUE]

\* Array.prototype.includes
includes(arr, x) == \E i \in DOMAIN arr : arr[i] = x
\* Array.prototype.some / every with the predicate "list includes element"
someIncluded(arr, list) == \E i \in DOMAIN arr : includes(list, arr[i])
everyIncluded(arr, list) == \A i \in DOMAIN arr : includes(list, arr[i])

(***************************************************************************)
(* Failures.  A thrown error is a record of its class and message; the     *)
(* classes are the two UnauthorizedError classes (the one of @repo/types   *)
(* and the subclass of @repo/elysia), ForbiddenError and a plain Error.    *)
(***************************************************************************)
NoError == [class |-> "none", message |-> ""]
BaseUnauthorizedError(m) == [class |-> "BaseUnauthorizedError", message |-> m]
UnauthorizedError(m) == [class |-> "UnauthorizedError", message |-> m]
ForbiddenError(m) == [class |-> "ForbiddenError", message |-> m]
IOError == [class |-> "Error", message |-> "connection lost"]

\* error instanceof UnauthorizedError, for the class of @repo/elysia: an
\* instance of the base class is not an instance of the subclass
instanceofUnauthorizedError(e) == e.class = "UnauthorizedError"

\* errorMessages of AuthPlugin with no custom messages
errorMessages ==
  [noToken |-> "Authentication required",
   invalidToken |-> "Invalid authentication token",
   userNotFound |-> "User not found"]

RolesMessage == "You do not have the required roles to access this resource."
PermissionsMessage == "You do not have the required permissions to access this resource."

\* the errors answered with status 401: both UnauthorizedError classes
\* (code 401 of the base class, toResponse() of the subclass)
Status401(e) == e.class \in {"UnauthorizedError", "BaseUnauthorizedError"}

(***************************************************************************)
(* Access policy evaluation                                                *)
(***************************************************************************)
DefaultSuperuserRole == "superuser"

\* checkRoles without the superuser bypass
checkRolesNoBypass(user, requiredRoles, superuserRole) ==
  someIncluded(requiredRoles, user.roles)

\* checkRoles asking for every required role
checkRolesEvery(user, requiredRoles, superuserRole) ==
  IF includes(user.roles, superuserRole) THEN TRUE
  ELSE everyIncluded(requiredRoles, user.roles)

checkRoles(user, requiredRoles, superuserRole) ==
  IF includes(user.roles, superuserRole) THEN TRUE
  ELSE someIncluded(requiredRoles, user.roles)

\* checkPermissions content with one of the required permissions
checkPermissionsSome(user, requiredPermissions, superuserRole) ==
  IF includes(user.roles, superuserRole) THEN TRUE
  ELSE someIncluded(requiredPermissions, user.permissions)

checkPermissions(user, requiredPermissions, superuserRole) ==
  IF includes(user.roles, superuserRole) THEN TRUE
  ELSE everyIncluded(requiredPermissions, user.permissions)

\* RBACGuardOptions: an optional field is a flag and a value
RBACGuardOptions ==
  [hasRoles : BOOLEAN, roles : RoleLists,
   hasPermissions : BOOLEAN, permissions : PermissionLists,
   hasSuperuserRole : BOOLEAN, superuserRole : {"moderator"}]

\* absent optional fields carry no value: keep one representative
WellFormedOptions(c) ==
  /\ (~c.hasRoles => c.roles = <<>>)
  /\ (~c.hasPermissions => c.permissions = <<>>)

\* rbac answering a request without Identity like one that lacks a role
rbacNullForbidden(user, config) ==
  IF user = Null THEN ForbiddenError(RolesMessage)
  ELSE LET superuserRole ==
             IF config.hasSuperuserRole THEN config.superuserRole
             ELSE DefaultSuperuserRole
       IN  IF /\ config.hasRoles /\ Len(config.roles) > 0
              /\ ~checkRoles(user, config.roles, superuserRole)
           THEN ForbiddenError(RolesMessage)
           ELSE IF /\ config.hasPermissions /\ Len(config.permissions) > 0
                   /\ ~checkPermissions(user, config.permissions, superuserRole)
                THEN ForbiddenError(PermissionsMessage)
                ELSE NoError

\* rbac letting a request pass that meets one of the two requirements
rbacEither(user, config) ==
  IF user = Null THEN UnauthorizedError(errorMessages.noToken)
  ELSE LET superuserRole ==
             IF config.hasSuperuserRole THEN config.superuserRole
             ELSE DefaultSuperuserRole
           rolesAsked == config.hasRoles /\ Len(config.roles) > 0
           permissionsAsked == config.hasPermissions /\ Len(config.permissions) > 0
           rolesOk == checkRoles(user, config.roles, superuserRole)
           permissionsOk == checkPermissions(user, config.permissions, superuserRole)
       IN  IF rolesAsked /\ permissionsAsked
           THEN IF rolesOk \/ permissionsOk THEN NoError
                ELSE ForbiddenError(RolesMessage)
           ELSE IF rolesAsked /\ ~rolesOk THEN ForbiddenError(RolesMessage)
                ELSE IF permissionsAsked /\ ~permissionsOk
                     THEN ForbiddenError(PermissionsMessage)
                     ELSE NoError

\* the rbac macro of auth.plugin.ts: the error thrown, NoError when the
\* request goes on to the handler
rbac(user, config) ==
  IF user = Null THEN UnauthorizedError(errorMessages.noToken)
  ELSE LET superuserRole ==
             IF config.hasSuperuserRole THEN config.superuserRole
             ELSE DefaultSuperuserRole
       IN  IF /\ config.hasRoles /\ Len(config.roles) > 0
              /\ ~checkRoles(user, config.roles, superuserRole)
           THEN ForbiddenError(RolesMessage)
           ELSE IF /\ config.hasPermissions /\ Len(config.permissions) > 0
                   /\ ~checkPermissions(user, config.permissions, superuserRole)
                THEN ForbiddenError(PermissionsMessage)
                ELSE NoError

\* rbacMacro letting a request pass that meets one of the two requirements
rbacMacroEither(user, roleOptions) ==
  IF user = Null THEN UnauthorizedError(errorMessages.noToken)
  ELSE LET rolesOk == checkRoles(user, roleOptions.roles, DefaultSuperuserRole)
           permissionsOk ==
             checkPermissions(user, roleOptions.permissions, DefaultSuperuserRole)
       IN  IF roleOptions.hasRoles /\ roleOptions.hasPermissions
           THEN IF rolesOk \/ permissionsOk THEN NoError
                ELSE ForbiddenError(RolesMessage)
           ELSE IF roleOptions.hasRoles /\ ~rolesOk THEN ForbiddenError(RolesMessage)
                ELSE IF roleOptions.hasPermissions /\ ~permissionsOk
                     THEN ForbiddenError(PermissionsMessage)
                     ELSE NoError

\* the rbac macro of the second variant of the plugin: no superuserRole
\* option, and a list is checked whenever it is given
rbacMacro(user, roleOptions) ==
  IF user = Null THEN UnauthorizedError(errorMessages.noToken)
  ELSE IF /\ roleOptions.hasRoles
          /\ ~checkRoles(user, roleOptions.roles, DefaultSuperuserRole)
       THEN ForbiddenError(RolesMessage)
       ELSE IF /\ roleOptions.hasPermissions
               /\ ~checkPermissions(user, roleOptions.permissions, DefaultSuperuserRole)
            THEN ForbiddenError(PermissionsMessage)
            ELSE NoError

requireRoles(user, roles, superuserRole) ==
  IF ~checkRoles(user, roles, superuserRole) THEN ForbiddenError(RolesMessage)
  ELSE NoError

requirePermissions(user, permissions, superuserRole) ==
  IF ~checkPermissions(user, permissions, superuserRole)
  THEN ForbiddenError(PermissionsMessage)
  ELSE NoError

\* RoleGuard.canActivate
RoleGuardCanActivate(user, requiredRoles, superuserRole) ==
  IF includes(user.roles, superuserRole) THEN NoError
  ELSE IF ~someIncluded(requiredRoles, user.roles) THEN ForbiddenError(RolesMessage)
       ELSE NoError

\* PermissionGuard.canActivate
PermissionGuardCanActivate(user, requiredPermissions, superuserRole) ==
  IF includes(user.roles, superuserRole) THEN NoError
  ELSE IF ~everyIncluded(requiredPermissions, user.permissions)
       THEN ForbiddenError(PermissionsMessage)
       ELSE NoError

(***************************************************************************)
(* State                                                                   *)
(***************************************************************************)
VARIABLES
  requireAuth,       \* AuthPluginOptions.requireAuth
  cache,             \* AuthPluginOptions.cache
  users,             \* table users: row of each user id
  user_roles,        \* table user_roles: role ids of each user, in row order
  role_permissions,  \* table role_permissions: permission names of each role
  cacheStore,        \* the entries the cache provider holds
  pc,                \* position of each request in the pipeline
  bearer,            \* context.bearer of each request
  userId,            \* userId of derive
  user,              \* context.user of each request
  error,             \* the error a request failed with
  calls,             \* the calls a request has made to its collaborators
  route,             \* the rbac option of the route a request was sent to
  started,           \* number of requests received
  envOps,            \* number of changes made to storage and cache
  evalUser,          \* access evaluation on its own: identity,
  evalOp,            \*   operation,
  evalConfig,        \*   requirement,
  evalResult,        \*   and the error raised
  lastReader,        \* history: the request whose storage read is the latest
  rbacCall,          \* UserRbacRepository: the last call and its outcome
  permissions,       \* table permissions: the name of each row, in id order
  permCall,          \* PermissionRepository: the last call and its outcome
  authUsers,         \* AuthService: the row of table users of each email
  emailVerifications,   \* table email_verifications
  passwordResetTokens,  \* table password_reset_tokens
  generated,         \* number of tokens TokenUtils.generateToken has returned
  authPc,            \* position of each call of AuthService that is running
  authLocal,         \* its arguments, locals and outcome
  authStarted,       \* number of calls of AuthService made
  resets             \* history: the reset tokens that changed a password

optionVars == <<requireAuth, cache>>
storageVars == <<users, user_roles, role_permissions>>
requestVars == <<pc, bearer, userId, user, error, calls, route>>
evalVars == <<evalUser, evalOp, evalConfig, evalResult>>
permissionVars == <<permissions, permCall>>
authVars == <<authUsers, emailVerifications, passwordResetTokens, generated,
              authPc, authLocal, authStarted, resets>>
adminVars == <<rbacCall, permissionVars, authVars>>
pipelineVars == <<optionVars, cacheStore, requestVars, started, envOps, evalVars, lastReader>>
vars == <<optionVars, storageVars, cacheStore, requestVars, started, envOps, evalVars, lastReader, adminVars>>

\* at most two requests are in flight at a time: request 1 is any request,
\* request 2 a request of another client that runs concurrently with it
Requests == {1, 2}

\* user ids with a row in table users; "2" never has one
UserIds == {"0", "1"}

\* role ids are identified with role names (roles.name is unique)
NoDupRoleLists == {l \in RoleLists : NoDup(l)}

(***************************************************************************)
(* Plugin options                                                          *)
(***************************************************************************)
DefaultKeyPrefix == "user:"
DefaultTtl == 3600

CacheOptions ==
  {[provider |-> FALSE, hasTtl |-> FALSE, ttl |-> 0, hasKeyPrefix |-> FALSE, keyPrefix |-> ""],
   [provider |-> TRUE, hasTtl |-> FALSE, ttl |-> 0, hasKeyPrefix |-> FALSE, keyPrefix |-> ""],
   [provider |-> TRUE, hasTtl |-> TRUE, ttl |-> 60, hasKeyPrefix |-> TRUE, keyPrefix |-> "auth:"]}

\* getUserCacheKey giving every subject the key of user 1
getUserCacheKeyShared(id, prefix) == prefix \o "1"

\* const getUserCacheKey = (userId, prefix = "user:") => `${prefix}${userId}`
getUserCacheKey(id, prefix) == prefix \o id

\* cache.keyPrefix ?? "user:"
keyPrefixOf(c) == IF c.hasKeyPrefix THEN c.keyPrefix ELSE DefaultKeyPrefix
\* ttlOf passing the default whatever is configured
ttlOfDefault(c) == DefaultTtl

\* cache.ttl ?? 3600
ttlOf(c) == IF c.hasTtl THEN c.ttl ELSE DefaultTtl

(***************************************************************************)
(* Tokens: what jwt.verify makes of the bearer string                      *)
(***************************************************************************)
NoBearer == [present |-> FALSE, valid |-> FALSE, idType |-> "undefined", str |-> "", num |-> 0]

Tokens ==
  {[present |-> TRUE, valid |-> FALSE, idType |-> "string", str |-> "1", num |-> 0]}
  \cup {[present |-> TRUE, valid |-> TRUE, idType |-> "string", str |-> s, num |-> 0] :
          s \in {"0", "1", "2", ""}}
  \cup {[present |-> TRUE, valid |-> TRUE, idType |-> "number", str |-> "", num |-> n] :
          n \in {0, 1}}
  \cup {[present |-> TRUE, valid |-> TRUE, idType |-> t, str |-> "", num |-> 0] :
          t \in {"undefined", "object"}}

\* verifyFails trusting every token
verifyFailsNever(token) == FALSE

\* jwt.verify: false for a bad signature, a malformed or an expired token
verifyFails(token) == ~token.valid

\* !payload.id
idFalsy(token) ==
  \/ token.idType = "undefined"
  \/ token.idType = "string" /\ token.str = ""
  \/ token.idType = "number" /\ token.num = 0

\* typeof payload.id === "string" ? payload.id
\*   : typeof payload.id === "number" ? String(payload.id) : null
\* (null is the empty string here: both are falsy in the test that follows)
userIdOf(token) ==
  IF token.idType = "string" THEN token.str
  ELSE IF token.idType = "number" THEN ToString(token.num)
       ELSE ""

CacheKeys == {getUserCacheKey(id, p) : id \in UserIds \cup {"2"}, p \in {DefaultKeyPrefix, "auth:"}}

(***************************************************************************)
(* Storage                                                                 *)
(***************************************************************************)
\* map / flatMap over the rows of the user
RECURSIVE flatMapPermissions(_, _)
flatMapPermissions(roleRows, rp) ==
  IF roleRows = <<>> THEN <<>>
  ELSE rp[Head(roleRows)] \o flatMapPermissions(Tail(roleRows), rp)

\* the row UserInformation's findFirst selects
findActiveUser(id) ==
  /\ id \in UserIds
  /\ users[id].status = "active"
  /\ ~users[id].deleted

\* UserRepository.UserInformation when the user is found
UserInformationOf(id) ==
  [id |-> id,
   email |-> users[id].email,
   name |-> users[id].name,
   roles |-> user_roles[id],
   permissions |-> flatMapPermissions(user_roles[id], role_permissions)]

(***************************************************************************)
(* Calls to collaborators, recorded per request                            *)
(***************************************************************************)
\* op and key (or user id) of the call, the value passed (cache.set) or
\* returned, the ttl passed, and how the call ended
Call(op, key, value, ttl, result) ==
  [op |-> op, key |-> key, value |-> value, ttl |-> ttl, result |-> result]
VerifyCall(result) == Call("jwt.verify", "", Null, 0, result)
CacheGetCall(key, value, result) == Call("cache.get", key, value, 0, result)
StorageCall(id, value, result) == Call("UserInformation", id, value, 0, result)
CacheSetCall(key, value, ttl, result) == Call("cache.set", key, value, ttl, result)

LastCall(r) == calls[r][Len(calls[r])]

CountCalls(r, op) == Cardinality({i \in DOMAIN calls[r] : calls[r][i].op = op})

\* the catch block of derive
catchDerive(e) ==
  IF instanceofUnauthorizedError(e) THEN e
  ELSE UnauthorizedError(errorMessages.invalidToken)

\* a request fails: the error goes to the error boundary
Fail(r, e) ==
  /\ pc' = [pc EXCEPT ![r] = "failed"]
  /\ error' = [error EXCEPT ![r] = e]

(***************************************************************************)
(* Initial state: the plugin as constructed, no request received           *)
(***************************************************************************)
InitUsers ==
  [id \in UserIds |->
     [status |-> "active", deleted |-> FALSE,
      email |-> id \o "@example.com", name |-> "user " \o id]]

InitRolePermissions ==
  [r \in RoleNames |->
     CASE r = "superuser" -> <<>>
       [] r = "admin" -> <<"users.read", "users.delete">>
       [] OTHER -> <<"users.read">>]

NoRoute ==
  [macro |-> "none",
   config |-> [hasRoles |-> FALSE, roles |-> <<>>, hasPermissions |-> FALSE,
               permissions |-> <<>>, hasSuperuserRole |-> FALSE,
               superuserRole |-> "moderator"]]

InitRequests ==
  /\ pc = [r \in Requests |-> "idle"]
  /\ bearer = [r \in Requests |-> NoBearer]
  /\ userId = [r \in Requests |-> ""]
  /\ user = [r \in Requests |-> Null]
  /\ error = [r \in Requests |-> NoError]
  /\ calls = [r \in Requests |-> <<>>]
  /\ route = [r \in Requests |-> NoRoute]
  /\ started = 0
  /\ envOps = 0
  /\ lastReader = 0

InitEval ==
  /\ evalUser = Null
  /\ evalOp = "none"
  /\ evalConfig = NoRoute.config
  /\ evalResult = NoError

\* no call has been made to the repositories and services of the administration
NoCall == [op |-> "none"]

InitAdmin ==
  /\ rbacCall = NoCall
  /\ permissions = <<>>
  /\ permCall = NoCall
  /\ authUsers = [email \in {} |-> NoCall]
  /\ emailVerifications = {}
  /\ passwordResetTokens = {}
  /\ generated = 0
  /\ authPc = <<>>
  /\ authLocal = <<>>
  /\ authStarted = 0
  /\ resets = <<>>

Init ==
  /\ requireAuth \in BOOLEAN
  /\ cache \in CacheOptions
  /\ users = InitUsers
  /\ user_roles = [id \in UserIds |-> IF id = "0" THEN <<"superuser">> ELSE <<"moderator", "admin">>]
  /\ role_permissions = InitRolePermissions
  /\ cacheStore = [k \in CacheKeys |-> Null]
  /\ InitRequests
  /\ InitEval
  /\ InitAdmin

(***************************************************************************)
(* derive: from the bearer token to context.user                           *)
(***************************************************************************)
\* allowsAnonymous letting every request without a token through
allowsAnonymousAlways(token) == ~token.present

\* allowsAnonymous letting no request through
allowsAnonymousNever(token) == FALSE

\* if (!requireAuth && !context.bearer): the request goes on with user null
allowsAnonymous(token) == ~requireAuth /\ ~token.present

\* derive up to its first call to a collaborator
Derive(r, token) ==
  /\ pc[r] = "idle"
  /\ started < MaxRequests
  /\ started' = started + 1
  /\ bearer' = [bearer EXCEPT ![r] = token]
  /\ IF allowsAnonymous(token)
     THEN /\ pc' = [pc EXCEPT ![r] = "derived"]
          /\ UNCHANGED <<userId, user, error, calls>>
     ELSE IF ~token.present
          THEN /\ Fail(r, UnauthorizedError(errorMessages.noToken))
               /\ UNCHANGED <<userId, user, calls>>
          ELSE /\ calls' = [calls EXCEPT ![r] =
                                Append(@, VerifyCall(IF verifyFails(token) THEN "false" ELSE "payload"))]
               /\ IF verifyFails(token) \/ idFalsy(token)
                  THEN /\ Fail(r, catchDerive(UnauthorizedError(errorMessages.invalidToken)))
                       /\ UNCHANGED <<userId, user>>
                  ELSE IF userIdOf(token) = ""
                       THEN /\ Fail(r, catchDerive(UnauthorizedError("Invalid user ID in token")))
                            /\ UNCHANGED <<userId, user>>
                       ELSE /\ userId' = [userId EXCEPT ![r] = userIdOf(token)]
                            /\ pc' = [pc EXCEPT ![r] =
                                        IF cache.provider THEN "cacheGet" ELSE "storage"]
                            /\ UNCHANGED <<user, error>>
  /\ UNCHANGED <<optionVars, storageVars, cacheStore, route, envOps, evalVars, lastReader, adminVars>>

\* CacheGet going on to storage whatever the cache returned
CacheGetThenStorage(r) ==
  /\ pc[r] = "cacheGet"
  /\ LET cacheKey == getUserCacheKey(userId[r], keyPrefixOf(cache))
     IN  \/ /\ calls' = [calls EXCEPT ![r] =
                           Append(@, CacheGetCall(cacheKey, cacheStore[cacheKey],
                                     IF cacheStore[cacheKey] = Null THEN "miss" ELSE "hit"))]
            /\ user' = [user EXCEPT ![r] = cacheStore[cacheKey]]
            /\ pc' = [pc EXCEPT ![r] = "storage"]
            /\ UNCHANGED error
         \/ /\ calls' = [calls EXCEPT ![r] = Append(@, CacheGetCall(cacheKey, Null, "error"))]
            /\ Fail(r, catchDerive(IOError))
            /\ UNCHANGED user
  /\ UNCHANGED <<optionVars, storageVars, cacheStore, bearer, userId, route, started, envOps, evalVars, lastReader, adminVars>>

\* CacheGet refusing a request while another one resolves the same subject
CacheGetExclusive(r) ==
  /\ pc[r] = "cacheGet"
  /\ LET cacheKey == getUserCacheKey(userId[r], keyPrefixOf(cache))
     IN  IF \E other \in Requests \ {r} :
              userId[other] = userId[r] /\ pc[other] \in {"storage", "cacheSet"}
         THEN /\ Fail(r, UnauthorizedError(errorMessages.invalidToken))
              /\ UNCHANGED <<calls, user>>
         ELSE \/ /\ calls' = [calls EXCEPT ![r] =
                                Append(@, CacheGetCall(cacheKey, cacheStore[cacheKey],
                                          IF cacheStore[cacheKey] = Null THEN "miss" ELSE "hit"))]
                 /\ user' = [user EXCEPT ![r] = cacheStore[cacheKey]]
                 /\ pc' = [pc EXCEPT ![r] =
                             IF cacheStore[cacheKey] = Null THEN "storage" ELSE "derived"]
                 /\ UNCHANGED error
              \/ /\ calls' = [calls EXCEPT ![r] = Append(@, CacheGetCall(cacheKey, Null, "error"))]
                 /\ Fail(r, catchDerive(IOError))
                 /\ UNCHANGED user
  /\ UNCHANGED <<optionVars, storageVars, cacheStore, bearer, userId, route, started, envOps, evalVars, lastReader, adminVars>>

\* user = await cache.provider.get(cacheKey), and the test that follows
CacheGet(r) ==
  /\ pc[r] = "cacheGet"
  /\ LET cacheKey == getUserCacheKey(userId[r], keyPrefixOf(cache))
     IN  \/ /\ calls' = [calls EXCEPT ![r] =
                           Append(@, CacheGetCall(cacheKey, cacheStore[cacheKey],
                                     IF cacheStore[cacheKey] = Null THEN "miss" ELSE "hit"))]
            /\ user' = [user EXCEPT ![r] = cacheStore[cacheKey]]
            /\ pc' = [pc EXCEPT ![r] =
                        IF cacheStore[cacheKey] = Null THEN "storage" ELSE "derived"]
            /\ UNCHANGED error
         \/ /\ calls' = [calls EXCEPT ![r] = Append(@, CacheGetCall(cacheKey, Null, "error"))]
            /\ Fail(r, catchDerive(IOError))
            /\ UNCHANGED user
  /\ UNCHANGED <<optionVars, storageVars, cacheStore, bearer, userId, route, started, envOps, evalVars, lastReader, adminVars>>

\* StorageRead querying once more when the query failed
StorageReadRetries(r) ==
  /\ pc[r] = "storage"
  /\ \/ /\ findActiveUser(userId[r])
        /\ calls' = [calls EXCEPT ![r] =
                       Append(@, StorageCall(userId[r], UserInformationOf(userId[r]), "found"))]
        /\ user' = [user EXCEPT ![r] = UserInformationOf(userId[r])]
        /\ pc' = [pc EXCEPT ![r] = IF cache.provider THEN "cacheSet" ELSE "derived"]
        /\ lastReader' = r
        /\ UNCHANGED error
     \/ /\ ~findActiveUser(userId[r])
        /\ calls' = [calls EXCEPT ![r] = Append(@, StorageCall(userId[r], Null, "notFound"))]
        /\ Fail(r, catchDerive(BaseUnauthorizedError("User not found")))
        /\ UNCHANGED <<user, lastReader>>
     \/ /\ calls' = [calls EXCEPT ![r] = Append(@, StorageCall(userId[r], Null, "error"))]
        /\ IF CountCalls(r, "UserInformation") = 0
           THEN UNCHANGED <<pc, error>>
           ELSE Fail(r, catchDerive(IOError))
        /\ UNCHANGED <<user, lastReader>>
  /\ UNCHANGED <<optionVars, storageVars, cacheStore, bearer, userId, route, started, envOps, evalVars, adminVars>>

\* StorageRead going on to cache.set when no user was found
StorageReadAlwaysCaches(r) ==
  /\ pc[r] = "storage"
  /\ \/ /\ findActiveUser(userId[r])
        /\ calls' = [calls EXCEPT ![r] =
                       Append(@, StorageCall(userId[r], UserInformationOf(userId[r]), "found"))]
        /\ user' = [user EXCEPT ![r] = UserInformationOf(userId[r])]
        /\ pc' = [pc EXCEPT ![r] = IF cache.provider THEN "cacheSet" ELSE "derived"]
        /\ lastReader' = r
        /\ UNCHANGED error
     \/ /\ ~findActiveUser(userId[r])
        /\ calls' = [calls EXCEPT ![r] = Append(@, StorageCall(userId[r], Null, "notFound"))]
        /\ pc' = [pc EXCEPT ![r] = IF cache.provider THEN "cacheSet" ELSE "derived"]
        /\ UNCHANGED <<user, error, lastReader>>
     \/ /\ calls' = [calls EXCEPT ![r] = Append(@, StorageCall(userId[r], Null, "error"))]
        /\ Fail(r, catchDerive(IOError))
        /\ UNCHANGED <<user, lastReader>>
  /\ UNCHANGED <<optionVars, storageVars, cacheStore, bearer, userId, route, started, envOps, evalVars, adminVars>>

\* const userInfo = await userRepo.UserInformation(userId); user = userInfo
StorageRead(r) ==
  /\ pc[r] = "storage"
  /\ \/ /\ findActiveUser(userId[r])
        /\ calls' = [calls EXCEPT ![r] =
                       Append(@, StorageCall(userId[r], UserInformationOf(userId[r]), "found"))]
        /\ user' = [user EXCEPT ![r] = UserInformationOf(userId[r])]
        /\ pc' = [pc EXCEPT ![r] = IF cache.provider THEN "cacheSet" ELSE "derived"]
        /\ lastReader' = r
        /\ UNCHANGED error
     \/ /\ ~findActiveUser(userId[r])
        /\ calls' = [calls EXCEPT ![r] = Append(@, StorageCall(userId[r], Null, "notFound"))]
        /\ Fail(r, catchDerive(BaseUnauthorizedError("User not found")))
        /\ UNCHANGED <<user, lastReader>>
     \/ \* the query fails
        /\ calls' = [calls EXCEPT ![r] = Append(@, StorageCall(userId[r], Null, "error"))]
        /\ Fail(r, catchDerive(IOError))
        /\ UNCHANGED <<user, lastReader>>
  /\ UNCHANGED <<optionVars, storageVars, cacheStore, bearer, userId, route, started, envOps, evalVars, adminVars>>

\* await cache.provider.set(cacheKey, user, cache.ttl ?? 3600)
CacheSet(r) ==
  /\ pc[r] = "cacheSet"
  /\ LET cacheKey == getUserCacheKey(userId[r], keyPrefixOf(cache))
     IN  \/ /\ calls' = [calls EXCEPT ![r] =
                           Append(@, CacheSetCall(cacheKey, user[r], ttlOf(cache), "stored"))]
            /\ cacheStore' = [cacheStore EXCEPT ![cacheKey] = user[r]]
            /\ pc' = [pc EXCEPT ![r] = "derived"]
            /\ UNCHANGED error
         \/ \* the provider rejects; the entry may or may not have been stored
            /\ calls' = [calls EXCEPT ![r] =
                           Append(@, CacheSetCall(cacheKey, user[r], ttlOf(cache), "rejected"))]
            /\ cacheStore' \in {cacheStore, [cacheStore EXCEPT ![cacheKey] = user[r]]}
            /\ Fail(r, catchDerive(IOError))
  /\ UNCHANGED <<optionVars, storageVars, bearer, userId, user, route, started, envOps, evalVars, lastReader, adminVars>>

(***************************************************************************)
(* beforeHandle of the route, then the handler                             *)
(***************************************************************************)
\* options of the two macros: the second one has no superuserRole
RbacOptions == {o \in RBACGuardOptions : WellFormedOptions(o)}
RbacMacroOptions == {o \in RbacOptions : ~o.hasSuperuserRole}

Options(hasR, R, hasP, P) ==
  [hasRoles |-> hasR, roles |-> R, hasPermissions |-> hasP, permissions |-> P,
   hasSuperuserRole |-> FALSE, superuserRole |-> "moderator"]

\* the routes requests are sent to
RouteOptions ==
  {[macro |-> "none", config |-> Options(FALSE, <<>>, FALSE, <<>>)],
   [macro |-> "rbac", config |-> Options(TRUE, <<"admin">>, FALSE, <<>>)],
   [macro |-> "rbac", config |-> Options(FALSE, <<>>, TRUE, <<"users.delete">>)],
   [macro |-> "rbacMacro", config |-> Options(TRUE, <<"admin">>, TRUE, <<"users.read">>)]}

\* the error the route's beforeHandle raises
beforeHandle(u, opt) ==
  IF opt.macro = "rbac" THEN rbac(u, opt.config)
  ELSE IF opt.macro = "rbacMacro" THEN rbacMacro(u, opt.config)
       ELSE NoError

\* BeforeHandle running the handler whatever the guard answers
BeforeHandleAlwaysHandles(r, opt) ==
  /\ pc[r] = "derived"
  /\ route' = [route EXCEPT ![r] = opt]
  /\ pc' = [pc EXCEPT ![r] = "handler"]
  /\ UNCHANGED <<optionVars, storageVars, cacheStore, bearer, userId, user, error, calls, started, envOps, evalVars, lastReader, adminVars>>

\* the beforeHandle hook of the route, then its handler
BeforeHandle(r, opt) ==
  /\ pc[r] = "derived"
  /\ route' = [route EXCEPT ![r] = opt]
  /\ LET e == beforeHandle(user[r], opt)
     IN  IF e = NoError
         THEN /\ pc' = [pc EXCEPT ![r] = "handler"]
              /\ UNCHANGED error
         ELSE Fail(r, e)
  /\ UNCHANGED <<optionVars, storageVars, cacheStore, bearer, userId, user, calls, started, envOps, evalVars, lastReader, adminVars>>

\* the response is sent and the request is over
Respond(r) ==
  /\ pc[r] \in {"handler", "failed"}
  /\ pc' = [pc EXCEPT ![r] = "idle"]
  /\ bearer' = [bearer EXCEPT ![r] = NoBearer]
  /\ userId' = [userId EXCEPT ![r] = ""]
  /\ user' = [user EXCEPT ![r] = Null]
  /\ error' = [error EXCEPT ![r] = NoError]
  /\ calls' = [calls EXCEPT ![r] = <<>>]
  /\ route' = [route EXCEPT ![r] = NoRoute]
  /\ lastReader' = (IF lastReader = r THEN 0 ELSE lastReader)
  /\ UNCHANGED <<optionVars, storageVars, cacheStore, started, envOps, evalVars, adminVars>>

(***************************************************************************)
(* The environment: administration of users and roles, cache expiry        *)
(***************************************************************************)
\* UserRbacRepository.assignRoles: replace the roles of a user
assignRoles(id, roleIds) ==
  /\ envOps < MaxEnvOps
  /\ id \in UserIds
  /\ \* existingRoles.length === roleIds.length
     Cardinality({x \in RoleNames : includes(roleIds, x)}) = Len(roleIds)
  /\ user_roles' = [user_roles EXCEPT ![id] = roleIds]
  /\ envOps' = envOps + 1
  /\ UNCHANGED <<optionVars, users, role_permissions, cacheStore, requestVars, started, evalVars, lastReader, adminVars>>

\* UserRepository.delete: soft delete
delete(id) ==
  /\ envOps < MaxEnvOps
  /\ id \in UserIds
  /\ ~users[id].deleted
  /\ users' = [users EXCEPT ![id].deleted = TRUE]
  /\ envOps' = envOps + 1
  /\ UNCHANGED <<optionVars, user_roles, role_permissions, cacheStore, requestVars, started, evalVars, lastReader, adminVars>>

\* the cache provider drops an entry (its TTL ran out, or it was evicted)
Evict(key) ==
  /\ envOps < MaxEnvOps
  /\ cache.provider
  /\ cacheStore[key] # Null
  /\ cacheStore' = [cacheStore EXCEPT ![key] = Null]
  /\ envOps' = envOps + 1
  /\ UNCHANGED <<optionVars, storageVars, requestVars, started, evalVars, lastReader, adminVars>>

\* the role lists an administrator assigns
AssignedRoleLists == {<<>>, <<"admin">>, <<"superuser">>, <<"admin", "moderator">>}

\* the tokens and routes of the requests
TokensOf(r) ==
  IF r = 1 THEN Tokens \cup {NoBearer}
  ELSE {t \in Tokens : t.valid /\ t.idType = "string" /\ t.str = "1"}
RoutesOf(r) == IF r = 1 THEN RouteOptions ELSE {NoRoute}

Next ==
  \/ \E r \in Requests : \E token \in TokensOf(r) : Derive(r, token)
  \/ \E r \in Requests : CacheGet(r)
  \/ \E r \in Requests : StorageRead(r)
  \/ \E r \in Requests : CacheSet(r)
  \/ \E r \in Requests : \E opt \in RoutesOf(r) : BeforeHandle(r, opt)
  \/ \E r \in Requests : Respond(r)
  \/ \E id \in UserIds, roleIds \in AssignedRoleLists : assignRoles(id, roleIds)
  \/ \E id \in UserIds : delete(id)
  \/ \E key \in CacheKeys : Evict(key)

Spec == Init /\ [][Next]_vars

(***************************************************************************)
(* Access evaluation on its own: every identity against every requirement  *)
(***************************************************************************)
Identities ==
  [id : {"1"}, email : {"1@example.com"}, name : {"user 1"},
   roles : NoDupRoleLists, permissions : PermissionLists]

InitGuard ==
  /\ requireAuth = TRUE
  /\ cache = [provider |-> FALSE, hasTtl |-> FALSE, ttl |-> 0,
              hasKeyPrefix |-> FALSE, keyPrefix |-> ""]
  /\ users = InitUsers
  /\ user_roles = [id \in UserIds |-> <<>>]
  /\ role_permissions = InitRolePermissions
  /\ cacheStore = [k \in CacheKeys |-> Null]
  /\ InitRequests
  /\ InitAdmin
  /\ evalUser \in Identities
  /\ evalOp = "none"
  /\ evalConfig = NoRoute.config
  /\ evalResult = NoError

Evaluate(op, config, result) ==
  /\ evalOp = "none"
  /\ evalOp' = op
  /\ evalConfig' = config
  /\ evalResult' = result
  /\ UNCHANGED <<optionVars, storageVars, cacheStore, requestVars, started, envOps, evalUser, lastReader, adminVars>>

superuserRoleOf(config) ==
  IF config.hasSuperuserRole THEN config.superuserRole ELSE DefaultSuperuserRole

EvalRbac(config) == Evaluate("rbac", config, rbac(evalUser, config))

EvalRbacMacro(config) == Evaluate("rbacMacro", config, rbacMacro(evalUser, config))

EvalRequireRoles(config) ==
  Evaluate("requireRoles", config,
           requireRoles(evalUser, config.roles, superuserRoleOf(config)))

EvalRequirePermissions(config) ==
  Evaluate("requirePermissions", config,
           requirePermissions(evalUser, config.permissions, superuserRoleOf(config)))

EvalRoleGuard(config) ==
  Evaluate("RoleGuard.canActivate", config,
           RoleGuardCanActivate(evalUser, config.roles, superuserRoleOf(config)))

EvalPermissionGuard(config) ==
  Evaluate("PermissionGuard.canActivate", config,
           PermissionGuardCanActivate(evalUser, config.permissions, superuserRoleOf(config)))

\* the arguments of the helpers that take one list
RolesOnly == {o \in RbacOptions : o.hasRoles /\ ~o.hasPermissions}
PermissionsOnly == {o \in RbacOptions : o.hasPermissions /\ ~o.hasRoles}

NextGuard ==
  \/ \E config \in RbacOptions : EvalRbac(config)
  \/ \E config \in RbacMacroOptions : EvalRbacMacro(config)
  \/ \E config \in RolesOnly : EvalRequireRoles(config)
  \/ \E config \in PermissionsOnly : EvalRequirePermissions(config)
  \/ \E config \in RolesOnly : EvalRoleGuard(config)
  \/ \E config \in PermissionsOnly : EvalPermissionGuard(config)

SpecGuard == InitGuard /\ [][NextGuard]_vars

(***************************************************************************)
(* Properties of the access evaluation (checked under SpecGuard)           *)
(***************************************************************************)
ToSet(list) == {list[i] : i \in DOMAIN list}

GuardRan == evalOp \in {"rbac", "rbacMacro"}
Allowed == evalResult = NoError
Forbidden == evalResult.class = "ForbiddenError"

HoldsSuperuser == superuserRoleOf(evalConfig) \in ToSet(evalUser.roles)
RolesRequired == evalConfig.hasRoles /\ evalConfig.roles # <<>>
PermissionsRequired == evalConfig.hasPermissions /\ evalConfig.permissions # <<>>
HoldsSomeRole == ToSet(evalUser.roles) \cap ToSet(evalConfig.roles) # {}
HoldsAllPermissions == ToSet(evalConfig.permissions) \subseteq ToSet(evalUser.permissions)

\* C1: an Identity holding the configured superuser role (default
\* "superuser", or the requirement's superuserRole) passes the rbac guard for
\* every non-empty requirement, whatever it lists and whatever else the
\* Identity holds.
C1_SuperuserBypass ==
  (GuardRan /\ HoldsSuperuser /\ (RolesRequired \/ PermissionsRequired)) => Allowed

\* a superuser by an overridden role name passes a requirement of which it
\* holds no role and not all permissions
C1_Witness ==
  /\ evalOp = "rbac" /\ evalConfig.hasSuperuserRole
  /\ HoldsSuperuser /\ ~("superuser" \in ToSet(evalUser.roles))
  /\ RolesRequired /\ PermissionsRequired
  /\ ~HoldsSomeRole /\ ~HoldsAllPermissions
  /\ Allowed

C4_AnyOfRoles ==
  (/\ evalOp \in {"rbac", "rbacMacro", "requireRoles", "RoleGuard.canActivate"}
   /\ ~HoldsSuperuser /\ RolesRequired /\ ~evalConfig.hasPermissions) =>
    /\ Allowed <=> HoldsSomeRole
    /\ ~Allowed => Forbidden

\* the second of two required roles is the one the Identity holds
C4_Witness ==
  /\ evalOp = "rbac" /\ ~HoldsSuperuser /\ ~evalConfig.hasPermissions
  /\ Len(evalConfig.roles) = 2
  /\ ~(evalConfig.roles[1] \in ToSet(evalUser.roles))
  /\ evalConfig.roles[2] \in ToSet(evalUser.roles)
  /\ Allowed

C6_EmptyRequirementPasses ==
  (GuardRan /\ evalUser # Null /\ ~RolesRequired /\ ~PermissionsRequired) => ~Forbidden

(***************************************************************************)
(* Properties of the resolution (checked under Spec)                       *)
(***************************************************************************)
\* the kinds of failure the caller can tell apart: status and message
IsInvalidCredential(e) ==
  /\ Status401(e)
  /\ e.message \in {errorMessages.invalidToken, "Invalid user ID in token"}
IsIdentityNotFound(e) ==
  /\ Status401(e)
  /\ e.message \in {"User not found", errorMessages.userNotFound}

Called(r) == calls[r] # <<>>

\* C7: when storage does not hold the verified subject as an active,
\* non-deleted user, the request fails with IdentityNotFound, answered as an
\* authentication failure (401), and cache.set is not called.
C7_NotFoundIsReported ==
  \A r \in Requests :
    (Called(r) /\ LastCall(r).op = "UserInformation" /\ LastCall(r).result = "notFound") =>
      /\ pc[r] = "failed"
      /\ IsIdentityNotFound(error[r])
      /\ CountCalls(r, "cache.set") = 0

\* C8: when storage returned the Identity and the cache.set that follows is
\* rejected, the request goes on with that Identity and no authentication
\* failure is raised.
C8_CacheWriteIsBestEffort ==
  \A r \in Requests :
    (Called(r) /\ LastCall(r).op = "cache.set" /\ LastCall(r).result = "rejected") =>
      /\ user[r] = LastCall(r).value
      /\ ~Status401(error[r])

\* C9: when cache.get or the storage read fails with an I/O error, the
\* failure of the request is neither IdentityNotFound nor InvalidCredential.
C9_IOErrorIsOpaque ==
  \A r \in Requests :
    (/\ Called(r) /\ LastCall(r).op \in {"cache.get", "UserInformation"}
     /\ LastCall(r).result = "error") =>
      /\ pc[r] = "failed"
      /\ ~IsIdentityNotFound(error[r])
      /\ ~IsInvalidCredential(error[r])

\* C10: with a cache configured, a resolution that finds the subject's entry
\* in the cache reads storage not at all and yields the cached Identity,
\* whatever storage holds by then; the resolution that missed read storage
\* exactly once before it wrote the entry.  Two resolutions of a subject with
\* the entry kept in between hence make one storage read in total.
C10_HitReadsNoStorage ==
  \A r \in Requests :
    (Len(calls[r]) >= 2 /\ calls[r][2].op = "cache.get") =>
      /\ (calls[r][2].result = "hit") =>
           /\ CountCalls(r, "UserInformation") = 0
           /\ CountCalls(r, "cache.set") = 0
           /\ user[r] = calls[r][2].value
      /\ (calls[r][2].result = "miss" /\ pc[r] \in {"derived", "handler"}) =>
           /\ CountCalls(r, "UserInformation") = 1
           /\ LastCall(r).op = "cache.set"
           /\ user[r] = LastCall(r).value

\* a request served from the cache with roles storage no longer holds
C10_Witness ==
  \E r \in Requests :
    /\ pc[r] = "handler"
    /\ Len(calls[r]) = 2 /\ calls[r][2].result = "hit"
    /\ findActiveUser(userId[r])
    /\ user[r].roles # user_roles[userId[r]]

\* the request has been received and not yet answered
Received(r) == pc[r] # "idle"

\* C11: after a cache miss and a successful storage load the request goes on
\* only once cache.set has been called with the key prefix + subjectId (the
\* key of the cache.get before it; prefix "user:" unless configured), the
\* Identity the resolution returns and the configured TTL (3600 when none is
\* configured).
C11_MissWritesCache ==
  \A r \in Requests :
    (/\ pc[r] \in {"derived", "handler"}
     /\ Len(calls[r]) >= 2 /\ calls[r][2].op = "cache.get" /\ calls[r][2].result = "miss") =>
      /\ Len(calls[r]) = 4
      /\ calls[r][3].op = "UserInformation" /\ calls[r][3].result = "found"
      /\ calls[r][4].op = "cache.set"
      /\ calls[r][4].key = calls[r][2].key
      /\ calls[r][4].key =
           (IF cache.hasKeyPrefix THEN cache.keyPrefix ELSE "user:") \o userId[r]
      /\ calls[r][4].value = user[r]
      /\ calls[r][4].value = calls[r][3].value
      /\ calls[r][4].ttl = (IF cache.hasTtl THEN cache.ttl ELSE 3600)

\* a miss with a configured prefix and TTL, written as configured
C11_Witness ==
  \E r \in Requests :
    /\ pc[r] = "handler"
    /\ Len(calls[r]) = 4 /\ calls[r][2].result = "miss"
    /\ cache.hasTtl /\ cache.hasKeyPrefix
    /\ calls[r][4].key = "auth:1" /\ calls[r][4].ttl = 60
    /\ cacheStore["auth:1"] = user[r]

\* C12: where authentication is mandatory, a request without a bearer
\* credential fails with MissingCredential (401) and has called neither
\* jwt.verify nor the cache nor storage.
C12_MissingCredential ==
  \A r \in Requests :
    (requireAuth /\ Received(r) /\ ~bearer[r].present) =>
      /\ pc[r] = "failed"
      /\ Status401(error[r])
      /\ error[r].message = errorMessages.noToken
      /\ calls[r] = <<>>
      /\ user[r] = Null

C12_Witness ==
  \E r \in Requests :
    /\ requireAuth /\ ~bearer[r].present
    /\ pc[r] = "failed" /\ error[r] = UnauthorizedError("Authentication required")

\* C13: where authentication is optional, a request without a credential
\* gets a null Identity and no failure from derive, while a request whose
\* credential is invalid or expired fails with InvalidCredential; the two
\* outcomes differ.
C13_AbsentIsNotInvalid ==
  \A r \in Requests :
    (~requireAuth /\ Received(r)) =>
      /\ ~bearer[r].present =>
           /\ user[r] = Null /\ calls[r] = <<>>
           /\ pc[r] \in {"derived", "handler", "failed"}
           /\ pc[r] = "failed" => route[r].macro # "none"
           /\ ~IsInvalidCredential(error[r])
      /\ (bearer[r].present /\ ~bearer[r].valid) =>
           /\ pc[r] = "failed"
           /\ IsInvalidCredential(error[r])

\* an anonymous request in the handler of a route without requirement
C13_Witness ==
  \E r \in Requests :
    /\ ~requireAuth /\ ~bearer[r].present
    /\ pc[r] = "handler" /\ user[r] = Null /\ error[r] = NoError

\* C14: a credential whose signature check fails, that is malformed or
\* expired, or whose subject is absent or unparseable fails with
\* InvalidCredential (401); cache.get, the storage read and cache.set are not
\* called.
BadCredential(token) ==
  /\ token.present
  /\ \/ ~token.valid
     \/ token.idType \in {"undefined", "object"}
     \/ token.idType = "string" /\ token.str = ""

C14_InvalidCredential ==
  \A r \in Requests :
    (Received(r) /\ BadCredential(bearer[r])) =>
      /\ pc[r] = "failed"
      /\ IsInvalidCredential(error[r])
      /\ \A i \in DOMAIN calls[r] : calls[r][i].op = "jwt.verify"
      /\ user[r] = Null

\* a token with a bad signature that names an existing user is refused
C14_Witness ==
  \E r \in Requests :
    /\ bearer[r].present /\ ~bearer[r].valid /\ bearer[r].str = "1"
    /\ pc[r] = "failed" /\ Len(calls[r]) = 1
    /\ error[r].message = "Invalid authentication token"

\* C15: when the request carries no Identity, the guard of a route that
\* declares a requirement fails with Unauthenticated (401), never with
\* Forbidden, whatever the requirement lists.
C15_Unauthenticated ==
  \A r \in Requests :
    (route[r].macro # "none" /\ user[r] = Null) =>
      /\ pc[r] = "failed"
      /\ Status401(error[r])
      /\ error[r].message = errorMessages.noToken
      /\ error[r].class # "ForbiddenError"

\* an anonymous request refused by the guard of a route that asks for a role
C15_Witness ==
  \E r \in Requests :
    /\ ~bearer[r].present /\ user[r] = Null /\ calls[r] = <<>>
    /\ route[r].macro = "rbac" /\ route[r].config.roles = <<"admin">>
    /\ pc[r] = "failed" /\ error[r] = UnauthorizedError("Authentication required")

\* C16: a token whose numeric subject is n, zero included, resolves to the
\* same non-empty subjectId as the token whose subject is the decimal string
\* of n.
C16_NumberLikeString ==
  \A r \in Requests :
    (/\ Received(r) /\ bearer[r].present /\ bearer[r].valid
     /\ bearer[r].idType \in {"number", "string"}) =>
      LET decimal == IF bearer[r].idType = "number"
                     THEN ToString(bearer[r].num) ELSE bearer[r].str
      IN  decimal # "" => userId[r] = decimal

\* the call that ended the resolution of the Identity of r
ResolvedBy(r) ==
  LET last == calls[r][Len(calls[r])]
  IN  IF cache.provider
      THEN \/ Len(calls[r]) = 2 /\ last.op = "cache.get" /\ last.result = "hit"
           \/ /\ Len(calls[r]) = 4
              /\ calls[r][2].op = "cache.get" /\ calls[r][2].result = "miss"
              /\ calls[r][3].op = "UserInformation" /\ calls[r][3].result = "found"
              /\ last.op = "cache.set" /\ last.result = "stored"
      ELSE Len(calls[r]) = 2 /\ last.op = "UserInformation" /\ last.result = "found"

\* C17: on a route with a requirement the handler runs only after the token
\* was verified, then the Identity resolved, then the requirement evaluated,
\* each with success; a request that failed never reaches the handler.
C17_HandlerAfterAllThree ==
  \A r \in Requests :
    /\ (pc[r] = "handler" /\ route[r].macro # "none") =>
         /\ bearer[r].present
         /\ Len(calls[r]) >= 2
         /\ calls[r][1].op = "jwt.verify" /\ calls[r][1].result = "payload"
         /\ ResolvedBy(r)
         /\ user[r] # Null /\ user[r] = calls[r][Len(calls[r])].value
         /\ beforeHandle(user[r], route[r]) = NoError
         /\ error[r] = NoError
    /\ pc[r] = "handler" => error[r] = NoError
    /\ pc[r] = "failed" => error[r] # NoError

\* an Identity loaded from storage reaches the handler of a guarded route
C17_Witness ==
  \E r \in Requests :
    /\ pc[r] = "handler" /\ route[r].macro = "rbac"
    /\ Len(calls[r]) = 4 /\ user[r] # Null
    /\ "admin" \in ToSet(user[r].roles)

\* C18: for a non-null Identity, requireRoles(identity, R) raises Forbidden
\* exactly when the rbac guard with {roles: R} does, and
\* requirePermissions(identity, P) exactly when the rbac guard with
\* {permissions: P} does, the empty lists included.
C18_HelpersAgreeWithGuard ==
  evalOp \in {"requireRoles", "requirePermissions"} =>
    (Forbidden <=> rbac(evalUser, evalConfig).class = "ForbiddenError")

\* the permissions the roles of user id grant, as a set
GrantedPermissions(id) ==
  UNION {ToSet(role_permissions[role]) : role \in ToSet(user_roles[id])}

\* C19: the Identity a storage read returns has the names of the roles
\* assigned to the user as roles and the set union of the permissions of those
\* roles, as they are at the read, as permissions; a permission that several
\* roles grant appears once.
C19_PermissionsAreTheUnion ==
  [][\A r \in Requests :
       (pc[r] = "storage" /\ pc'[r] \in {"cacheSet", "derived"}) =>
         /\ user'[r].roles = user_roles[userId[r]]
         /\ ToSet(user'[r].permissions) = GrantedPermissions(userId[r])
         /\ NoDup(user'[r].permissions)]_vars

\* C20: within a request storage is read only after cache.get returned a
\* miss, or when no cache is configured, and cache.set is called only after
\* the storage read returned an Identity: no storage read follows a hit and
\* no cache write follows a failed read.
C20_ReadBeforeWrite ==
  \A r \in Requests : \A i \in DOMAIN calls[r] :
    /\ calls[r][i].op = "UserInformation" =>
         /\ i > 1
         /\ IF cache.provider
            THEN calls[r][i - 1].op = "cache.get" /\ calls[r][i - 1].result = "miss"
            ELSE /\ calls[r][i - 1].op = "jwt.verify"
                 /\ \A j \in DOMAIN calls[r] : calls[r][j].op \notin {"cache.get", "cache.set"}
    /\ calls[r][i].op = "cache.set" =>
         /\ i > 1
         /\ calls[r][i - 1].op = "UserInformation" /\ calls[r][i - 1].result = "found"
         /\ calls[r][i].value = calls[r][i - 1].value
    /\ (calls[r][i].op = "cache.get" /\ calls[r][i].result # "miss") =>
         \A j \in DOMAIN calls[r] : j > i => calls[r][j].op \notin {"UserInformation", "cache.set"}
    /\ (calls[r][i].op = "UserInformation" /\ calls[r][i].result # "found") =>
         \A j \in DOMAIN calls[r] : j > i => calls[r][j].op # "cache.set"

\* a miss followed by a storage read that finds no user: the request fails
\* and nothing is written to the cache
C20_Witness ==
  \E r \in Requests :
    /\ pc[r] = "failed" /\ Len(calls[r]) = 3
    /\ calls[r][2].op = "cache.get" /\ calls[r][2].result = "miss"
    /\ calls[r][3].op = "UserInformation" /\ calls[r][3].result = "notFound"
    /\ cacheStore[calls[r][2].key] = Null

\* C21: a resolution, successful or not, calls cache.get at most once, the
\* storage load at most once and cache.set at most once; no failure is
\* followed by a second attempt.
C21_AtMostOneOfEach ==
  \A r \in Requests :
    /\ CountCalls(r, "cache.get") <= 1
    /\ CountCalls(r, "UserInformation") <= 1
    /\ CountCalls(r, "cache.set") <= 1
    /\ CountCalls(r, "jwt.verify") <= 1
    /\ Len(calls[r]) <= 4
    /\ pc[r] = "failed" => \A i \in DOMAIN calls[r] :
         calls[r][i].result \in {"false", "error", "notFound", "rejected"} => i = Len(calls[r])

\* a resolution that made each call once and failed at the last of them
C21_Witness ==
  \E r \in Requests :
    /\ pc[r] = "failed"
    /\ CountCalls(r, "cache.get") = 1
    /\ CountCalls(r, "UserInformation") = 1
    /\ CountCalls(r, "cache.set") = 1
    /\ LastCall(r).op = "cache.set" /\ LastCall(r).result = "rejected"

\* the failure of request r follows from its own token, its own calls or the
\* guard of its own route
OwnFailure(r) ==
  \/ ~bearer[r].present
  \/ /\ Len(calls[r]) >= 1
     /\ LastCall(r).result \in {"false", "error", "notFound", "rejected"}
  \/ /\ Len(calls[r]) = 1
     /\ idFalsy(bearer[r]) \/ userIdOf(bearer[r]) = ""
  \/ /\ route[r].macro # "none"
     /\ beforeHandle(user[r], route[r]) # NoError

\* C22: two requests for the same uncached subject may both miss the cache
\* and both read storage; under every interleaving each one goes on with the
\* Identity its own storage read returned, none waits for the other and none
\* fails because of the other.
C22_ConcurrentMisses ==
  \A r \in Requests :
    /\ \A i \in DOMAIN calls[r] :
         (calls[r][i].op = "UserInformation" /\ calls[r][i].result = "found") =>
           /\ user[r] = calls[r][i].value
           /\ pc[r] = "failed" =>
                \/ LastCall(r).result = "rejected"
                \/ route[r].macro # "none" /\ beforeHandle(user[r], route[r]) # NoError
    /\ pc[r] = "failed" => OwnFailure(r)
    /\ pc[r] = "cacheGet" => ENABLED CacheGet(r)
    /\ pc[r] = "storage" => ENABLED StorageRead(r)
    /\ pc[r] = "cacheSet" => ENABLED CacheSet(r)

\* both requests missed the cache, both read the same user from storage and
\* both went on with it
C22_Witness ==
  /\ userId[1] = "1" /\ userId[2] = "1"
  /\ \A r \in Requests :
       /\ pc[r] \in {"derived", "handler"}
       /\ Len(calls[r]) = 4
       /\ calls[r][2].result = "miss"
       /\ calls[r][3].result = "found" /\ user[r] = calls[r][3].value
       /\ calls[r][4].result = "stored"

\* the requests in flight for subject id
ResolutionsOf(id) == {r \in Requests : Received(r) /\ userId[r] = id}

\* the resolution of r went through storage and its cache.set was accepted
StoredByMiss(r) ==
  /\ pc[r] \in {"derived", "handler"}
  /\ Len(calls[r]) = 4
  /\ calls[r][3].op = "UserInformation" /\ calls[r][3].result = "found"
  /\ calls[r][4].op = "cache.set" /\ calls[r][4].result = "stored"

\* C23: once the concurrent resolutions of one subject have completed, the
\* cache entry of that subject is the Identity of the latest storage read
\* among them, also when the roles of the subject were changed in storage
\* between the reads.
C23_CacheHoldsLatestRead ==
  \A id \in UserIds :
    (/\ ResolutionsOf(id) # {}
     /\ \A r \in ResolutionsOf(id) : StoredByMiss(r)
     /\ lastReader \in ResolutionsOf(id)) =>
      LET cacheKey == calls[lastReader][4].key
      IN  cacheStore[cacheKey] # Null =>
            cacheStore[cacheKey] = calls[lastReader][3].value

\* the cache key of the subject that the token of request r names
OwnKey(r, token) ==
  (IF cache.hasKeyPrefix THEN cache.keyPrefix ELSE "user:") \o userIdOf(token)

\* C24: a step of the pipeline writes nothing to storage, calls no cache
\* operation but get and set, and every cache.set of a request has the key
\* prefix + subjectId of the subject its own token names: no request changes
\* the cache entry of another subject.
C24_PipelineFrame ==
  [][envOps' = envOps =>
       /\ UNCHANGED storageVars
       /\ \A k \in DOMAIN cacheStore :
            cacheStore'[k] # cacheStore[k] =>
              \E r \in Requests :
                /\ pc[r] = "cacheSet"
                /\ k = OwnKey(r, bearer[r])
                /\ cacheStore'[k] = user[r] /\ user[r].id = userIdOf(bearer[r])
       /\ \A r \in Requests : \A i \in DOMAIN calls'[r] :
            /\ calls'[r][i].op \in {"jwt.verify", "cache.get", "UserInformation", "cache.set"}
            /\ calls'[r][i].op \in {"cache.get", "cache.set"} =>
                 calls'[r][i].key = OwnKey(r, bearer'[r])]_vars

\* requests of two subjects have each written the entry of their own subject
C24_Witness ==
  /\ cacheStore["user:0"] # Null /\ cacheStore["user:0"].id = "0"
  /\ cacheStore["user:1"] # Null /\ cacheStore["user:1"].id = "1"
  /\ userId[1] = "0" /\ userId[2] = "1"
  /\ LastCall(1).op = "cache.set" /\ LastCall(2).op = "cache.set"

(***************************************************************************)
(* UserRbacRepository: the roles of a user (a role id is the role's name)  *)
(***************************************************************************)
BadRequestError(m) == [class |-> "BadRequestError", message |-> m]

\* an id that names no row of the table roles
UnknownRoleId == "no-such-role"

\* the role id lists a caller passes, ids repeated or unknown included
RoleIdLists == SeqsUpTo(RoleNames \cup {UnknownRoleId}, MaxListLen)

\* database.query.roles.findMany({where: inArray(roles.id, roleIds)})
existingRoles(roleIds) == {role \in RoleNames : includes(roleIds, role)}

RbacCall(op, id, roleIds, e) ==
  [op |-> op, userId |-> id, roleIds |-> roleIds, error |-> e]

\* the rows of a user without those of role roleId
withoutRole(rows, roleId) == SelectSeq(rows, LAMBDA role : role # roleId)

\* UserRbacRepository.assignRoles, the whole call
UserRbacRepository_assignRoles(id, roleIds) ==
  /\ IF Len(roleIds) > 0 /\ Cardinality(existingRoles(roleIds)) # Len(roleIds)
     THEN /\ rbacCall' = RbacCall("assignRoles", id, roleIds,
                                  BadRequestError("Some roles do not exist"))
          /\ UNCHANGED user_roles
     ELSE /\ rbacCall' = RbacCall("assignRoles", id, roleIds, NoError)
          /\ user_roles' = [user_roles EXCEPT ![id] = roleIds]
  /\ UNCHANGED <<pipelineVars, users, role_permissions, permissionVars, authVars>>

\* UserRbacRepository.removeRole with where(and(eq(user_id), eq(role_id)))
UserRbacRepository_removeRole(id, roleId) ==
  /\ rbacCall' = RbacCall("removeRole", id, <<roleId>>, NoError)
  /\ user_roles' = [user_roles EXCEPT ![id] = withoutRole(@, roleId)]
  /\ UNCHANGED <<pipelineVars, users, role_permissions, permissionVars, authVars>>

\* UserRbacRepository.removeRole with where(eq(user_id) && eq(role_id)):
\* both operands are objects, so && yields the second and the condition on
\* the user is dropped
UserRbacRepository_removeRole_2(id, roleId) ==
  /\ rbacCall' = RbacCall("removeRole", id, <<roleId>>, NoError)
  /\ user_roles' = [u \in DOMAIN user_roles |-> withoutRole(user_roles[u], roleId)]
  /\ UNCHANGED <<pipelineVars, users, role_permissions, permissionVars, authVars>>

InitRbac ==
  /\ requireAuth = TRUE
  /\ cache = [provider |-> FALSE, hasTtl |-> FALSE, ttl |-> 0,
              hasKeyPrefix |-> FALSE, keyPrefix |-> ""]
  /\ users = InitUsers
  /\ user_roles \in [UserIds -> NoDupRoleLists]
  /\ role_permissions = InitRolePermissions
  /\ cacheStore = [k \in CacheKeys |-> Null]
  /\ InitRequests
  /\ InitEval
  /\ InitAdmin

NextRbac ==
  \/ \E id \in UserIds, roleIds \in RoleIdLists : UserRbacRepository_assignRoles(id, roleIds)
  \/ \E id \in UserIds, roleId \in RoleNames : UserRbacRepository_removeRole(id, roleId)
  \/ \E id \in UserIds, roleId \in RoleNames : UserRbacRepository_removeRole_2(id, roleId)

SpecRbac == InitRbac /\ [][NextRbac]_vars

\* C25: removeRole(userId, roleId) deletes the assignment of role roleId to
\* user userId and nothing else: the other roles of the user and the roles of
\* every other user, the same role included, stay as they are.
C25_RemoveRoleFrame ==
  [][rbacCall'.op = "removeRole" =>
       LET id == rbacCall'.userId
           roleId == rbacCall'.roleIds[1]
       IN  /\ user_roles'[id] = withoutRole(user_roles[id], roleId)
           /\ \A other \in UserIds \ {id} : user_roles'[other] = user_roles[other]]_vars

\* C26: assignRoles(userId, roleIds) succeeds and leaves the user with
\* exactly the roles of roleIds whenever every id of roleIds names an existing
\* role; it fails with BadRequestError "Some roles do not exist", the roles of
\* the user unchanged, only when some id names no existing role.
C26_AssignRoles ==
  [][rbacCall'.op = "assignRoles" =>
       LET id == rbacCall'.userId
           roleIds == rbacCall'.roleIds
       IN  IF \A i \in DOMAIN roleIds : roleIds[i] \in RoleNames
           THEN /\ rbacCall'.error = NoError
                /\ user_roles' = [user_roles EXCEPT ![id] = roleIds]
           ELSE /\ rbacCall'.error = BadRequestError("Some roles do not exist")
                /\ UNCHANGED user_roles]_vars

(***************************************************************************)
(* PermissionRepository: the table permissions                            *)
(***************************************************************************)
MaxRows == 3

NotFoundError(m) == [class |-> "NotFoundError", message |-> m]

\* what the driver throws when a statement breaks a constraint
DatabaseError == [class |-> "Error", message |-> "duplicate key value"]

\* the names create and update are called with
PermissionCreateNames == {"users:read", "users:write", "roles.view"}

\* the group and the names createBulk is called with
PermissionGroups == {"users"}
BulkNames == {"read", " read", "write"}
BulkNameLists == SeqsUpTo(BulkNames, MaxListLen) \ {<<>>}

\* String.prototype.trim on the names above
trim(name) == IF name = " read" THEN "read" ELSE name

\* names.map((name) => ({name: `${group}:${name.trim()}`, group}))
permissionsData(group, names) ==
  [i \in DOMAIN names |-> group \o ":" \o trim(names[i])]

PermCall(op, e) == [op |-> op, error |-> e]

\* insert into a table that takes any rows
insertPermissionsNoIndex(table, names) == [ok |-> TRUE, table |-> table \o names]

\* database.insert(permissions).values(...): the column name carries a unique
\* index (the seed inserts with onConflictDoNothing({target: permissions.name})),
\* so a statement that would store a name twice fails as a whole
insertPermissions(table, names) ==
  IF NoDup(table \o names)
  THEN [ok |-> TRUE, table |-> table \o names]
  ELSE [ok |-> FALSE, table |-> table]

\* PermissionRepository.create
PermissionRepository_create(name) ==
  /\ Len(permissions) < MaxRows
  /\ IF includes(permissions, name)
     THEN /\ permCall' = PermCall("create",
                                  BadRequestError("Permission '" \o name \o "' already exists"))
          /\ UNCHANGED permissions
     ELSE LET inserted == insertPermissions(permissions, <<name>>)
          IN  /\ permissions' = inserted.table
              /\ permCall' = PermCall("create",
                                      IF inserted.ok THEN NoError ELSE DatabaseError)
  /\ UNCHANGED <<pipelineVars, storageVars, rbacCall, authVars>>

\* PermissionRepository.createBulk
PermissionRepository_createBulk(group, names) ==
  /\ Len(permissions) + Len(names) <= MaxRows
  /\ LET data == permissionsData(group, names)
         existingPermissions == {i \in DOMAIN permissions : includes(data, permissions[i])}
     IN  IF existingPermissions # {}
         THEN /\ permCall' = PermCall("createBulk",
                                      BadRequestError("Some permissions already exist"))
              /\ UNCHANGED permissions
         ELSE LET inserted == insertPermissions(permissions, data)
              IN  /\ permissions' = inserted.table
                  /\ permCall' = PermCall("createBulk",
                                          IF inserted.ok THEN NoError ELSE DatabaseError)
  /\ UNCHANGED <<pipelineVars, storageVars, rbacCall, authVars>>

\* PermissionRepository.update; hasName: data.name is given
PermissionRepository_update(id, hasName, name) ==
  /\ IF id \notin DOMAIN permissions
     THEN /\ permCall' = PermCall("update", NotFoundError("Permission not found"))
          /\ UNCHANGED permissions
     ELSE IF hasName /\ name # permissions[id] /\ includes(permissions, name)
          THEN /\ permCall' = PermCall("update",
                                       BadRequestError("Permission '" \o name \o "' already exists"))
               /\ UNCHANGED permissions
          ELSE /\ permCall' = PermCall("update", NoError)
               /\ permissions' = IF hasName THEN [permissions EXCEPT ![id] = name]
                                 ELSE permissions
  /\ UNCHANGED <<pipelineVars, storageVars, rbacCall, authVars>>

InitPermissions ==
  /\ requireAuth = TRUE
  /\ cache = [provider |-> FALSE, hasTtl |-> FALSE, ttl |-> 0,
              hasKeyPrefix |-> FALSE, keyPrefix |-> ""]
  /\ users = InitUsers
  /\ user_roles = [id \in UserIds |-> <<>>]
  /\ role_permissions = InitRolePermissions
  /\ cacheStore = [k \in CacheKeys |-> Null]
  /\ InitRequests
  /\ InitEval
  /\ InitAdmin

NextPermissions ==
  \/ \E name \in PermissionCreateNames : PermissionRepository_create(name)
  \/ \E group \in PermissionGroups, names \in BulkNameLists :
       PermissionRepository_createBulk(group, names)
  \/ \E id \in 1..MaxRows, hasName \in BOOLEAN, name \in PermissionCreateNames :
       PermissionRepository_update(id, hasName, name)

SpecPermissions == InitPermissions /\ [][NextPermissions]_vars

MaxAuthCalls == 3

AuthProcs == {1, 2}
Emails == {"v@x.io", "u@x.io", "n@x.io"}
Passwords == {"pw1", "pw2"}

\* bcrypt.hash(value, 10): the hash of a value, whatever the salt
generateHash(value) == "$2a$10$" \o value

\* bcrypt.compare(value, hash)
compareHash(value, hash) == hash = generateHash(value)

\* new BadRequestError("Validation error", [{field, message}])
ValidationError(field, message) ==
  [class |-> "BadRequestError", message |-> "Validation error",
   field |-> field, detail |-> message]

\* no row of table users has the email
NoUser == [registered |-> FALSE, password |-> "", given |-> "", origin |-> "",
           verified |-> FALSE, status |-> ""]

\* a row of table users; given and origin are history: the password the
\* user chose last and the operation that stored it
UserRow(password, given, origin, verified) ==
  [registered |-> TRUE, password |-> password, given |-> given, origin |-> origin,
   verified |-> verified, status |-> "active"]

\* the locals of a call: its arguments, the user and token it works on, the
\* error it threw and whether it logged an error
AuthLocal(op, email, token, password, user_id, e, logged) ==
  [op |-> op, email |-> email, token |-> token, password |-> password,
   user_id |-> user_id, error |-> e, logged |-> logged]

NoAuthCall == AuthLocal("none", "", 0, "", "", NoError, FALSE)

\* the rows of a token table that belong to a user, or that have a token
rowsOfUser(table, user_id) == {row \in table : row.user_id = user_id}
rowsOfToken(table, token) == {row \in table : row.token = token}

\* a call ends: it returns, or throws e
AuthEnd(p, local) ==
  /\ authPc' = [authPc EXCEPT ![p] = "done"]
  /\ authLocal' = [authLocal EXCEPT ![p] = local]

\* forgotPassword(email) up to the call of sendResetPasswordEmail
ForgotPassword(p, email) ==
  /\ authPc[p] = "idle" /\ authStarted < MaxAuthCalls
  /\ authStarted' = authStarted + 1
  /\ LET found == authUsers[email]
         call == AuthLocal("forgotPassword", email, 0, "", "", NoError, FALSE)
     IN  \/ \* findByEmail rejects (no row, or the query failed): user is null
            /\ AuthEnd(p, call)
            /\ UNCHANGED generated
         \/ /\ found.registered /\ ~found.verified
            /\ AuthEnd(p, call)
            /\ UNCHANGED generated
         \/ /\ found.registered /\ found.verified
            /\ generated' = generated + 1
            /\ authPc' = [authPc EXCEPT ![p] = "resetDelete"]
            /\ authLocal' = [authLocal EXCEPT ![p] =
                 AuthLocal("forgotPassword", email, generated + 1, "", email, NoError, FALSE)]
  /\ UNCHANGED <<authUsers, emailVerifications, passwordResetTokens, resets>>
  /\ UNCHANGED <<pipelineVars, storageVars, rbacCall, permissionVars>>

\* forgotPasswordCatch passing the failure on to the caller
forgotPasswordRethrow(local) ==
  [local EXCEPT !.error = ValidationError("email", "An error occurred"), !.logged = TRUE]

\* what the catch block of forgotPassword makes of a rejected await
forgotPasswordCatch(local) == [local EXCEPT !.logged = TRUE]

\* sendResetPasswordEmail: delete the tokens of the user
ResetTokensDelete(p) ==
  /\ authPc[p] = "resetDelete"
  /\ \/ /\ passwordResetTokens' = passwordResetTokens \ rowsOfUser(passwordResetTokens, authLocal[p].user_id)
        /\ authPc' = [authPc EXCEPT ![p] = "resetInsert"]
        /\ UNCHANGED authLocal
     \/ /\ AuthEnd(p, forgotPasswordCatch(authLocal[p]))
        /\ UNCHANGED passwordResetTokens
  /\ UNCHANGED <<authUsers, emailVerifications, generated, authStarted, resets>>
  /\ UNCHANGED <<pipelineVars, storageVars, rbacCall, permissionVars>>

\* sendResetPasswordEmail: insert the new token
ResetTokenInsert(p) ==
  /\ authPc[p] = "resetInsert"
  /\ \/ /\ passwordResetTokens' = passwordResetTokens \cup
             {[user_id |-> authLocal[p].user_id, token |-> authLocal[p].token]}
        /\ authPc' = [authPc EXCEPT ![p] = "resetMail"]
        /\ UNCHANGED authLocal
     \/ /\ AuthEnd(p, forgotPasswordCatch(authLocal[p]))
        /\ UNCHANGED passwordResetTokens
  /\ UNCHANGED <<authUsers, emailVerifications, generated, authStarted, resets>>
  /\ UNCHANGED <<pipelineVars, storageVars, rbacCall, permissionVars>>

\* sendResetPasswordEmail: EmailService.sendPasswordResetEmail
SendPasswordResetEmail(p) ==
  /\ authPc[p] = "resetMail"
  /\ \/ AuthEnd(p, authLocal[p])
     \/ AuthEnd(p, forgotPasswordCatch(authLocal[p]))
  /\ UNCHANGED <<authUsers, emailVerifications, passwordResetTokens, generated, authStarted, resets>>
  /\ UNCHANGED <<pipelineVars, storageVars, rbacCall, permissionVars>>

\* resetPassword(token, password) up to the transaction
ResetPassword(p, token, password) ==
  /\ authPc[p] = "idle" /\ authStarted < MaxAuthCalls
  /\ authStarted' = authStarted + 1
  /\ LET found == rowsOfToken(passwordResetTokens, token)
         call(user_id, e) == AuthLocal("resetPassword", "", token, password, user_id, e, FALSE)
     IN  \/ \* no row, or the row has expired
            AuthEnd(p, call("", ValidationError("token", "Invalid or expired password reset token")))
         \/ \* the query fails
            AuthEnd(p, [call("", ValidationError("token", "An error occurred during password reset"))
                          EXCEPT !.logged = TRUE])
         \/ \E passwordReset \in found :
              /\ authPc' = [authPc EXCEPT ![p] = "resetTx"]
              /\ authLocal' = [authLocal EXCEPT ![p] = call(passwordReset.user_id, NoError)]
  /\ UNCHANGED <<authUsers, emailVerifications, passwordResetTokens, generated, resets>>
  /\ UNCHANGED <<pipelineVars, storageVars, rbacCall, permissionVars>>

\* resetPassword: the transaction that sets the password and deletes the
\* tokens of the user
ResetPasswordTx(p) ==
  /\ authPc[p] = "resetTx"
  /\ LET local == authLocal[p]
     IN  \/ /\ authUsers' = [authUsers EXCEPT ![local.user_id] =
                 UserRow(generateHash(local.password), local.password, "resetPassword", @.verified)]
            /\ passwordResetTokens' = passwordResetTokens \ rowsOfUser(passwordResetTokens, local.user_id)
            /\ resets' = Append(resets, local.token)
            /\ AuthEnd(p, local)
         \/ /\ AuthEnd(p, [local EXCEPT
                 !.error = ValidationError("token", "An error occurred during password reset"),
                 !.logged = TRUE])
            /\ UNCHANGED <<authUsers, passwordResetTokens, resets>>
  /\ UNCHANGED <<emailVerifications, generated, authStarted>>
  /\ UNCHANGED <<pipelineVars, storageVars, rbacCall, permissionVars>>

\* the caller has the outcome of the call
AuthReturn(p) ==
  /\ authPc[p] = "done"
  /\ authPc' = [authPc EXCEPT ![p] = "idle"]
  /\ authLocal' = [authLocal EXCEPT ![p] = NoAuthCall]
  /\ UNCHANGED <<authUsers, emailVerifications, passwordResetTokens, generated, authStarted, resets>>
  /\ UNCHANGED <<pipelineVars, storageVars, rbacCall, permissionVars>>

\* UserRepository.create: the password column of the row it inserts
UserRepository_create(data) ==
  UserRow(generateHash(data.password), data.given, "register", FALSE)

\* AuthService.register
Register(p, email, password) ==
  /\ authPc[p] = "idle" /\ authStarted < MaxAuthCalls
  /\ authStarted' = authStarted + 1
  /\ LET call(e, logged) == AuthLocal("register", email, 0, password, "", e, logged)
     IN  IF authUsers[email].registered
         THEN /\ AuthEnd(p, call(ValidationError("email", "Email is already registered"), FALSE))
              /\ UNCHANGED <<authUsers, emailVerifications, generated>>
         ELSE \/ LET hashedPassword == generateHash(password)
                 IN  /\ authUsers' = [authUsers EXCEPT ![email] =
                          UserRepository_create([password |-> hashedPassword, given |-> password])]
                     /\ generated' = generated + 1
                     /\ emailVerifications' = emailVerifications \cup
                          {[user_id |-> email, token |-> generated + 1]}
                     /\ AuthEnd(p, call(NoError, FALSE))
              \/ \* the transaction fails and is rolled back
                 /\ AuthEnd(p, call(ValidationError("general",
                                      "An error occurred during registration"), TRUE))
                 /\ UNCHANGED <<authUsers, emailVerifications, generated>>
  /\ UNCHANGED <<passwordResetTokens, resets>>
  /\ UNCHANGED <<pipelineVars, storageVars, rbacCall, permissionVars>>

\* AuthService.verifyEmail
VerifyEmail(p, token) ==
  /\ authPc[p] = "idle" /\ authStarted < MaxAuthCalls
  /\ authStarted' = authStarted + 1
  /\ LET call(e) == AuthLocal("verifyEmail", "", token, "", "", e, FALSE)
     IN  \/ \* no row, or the row has expired
            /\ AuthEnd(p, call(ValidationError("token", "Invalid or expired verification token")))
            /\ UNCHANGED <<authUsers, emailVerifications>>
         \/ \E record \in rowsOfToken(emailVerifications, token) :
              /\ authUsers' = [authUsers EXCEPT ![record.user_id].verified = TRUE]
              /\ emailVerifications' =
                   emailVerifications \ rowsOfUser(emailVerifications, record.user_id)
              /\ AuthEnd(p, [call(NoError) EXCEPT !.user_id = record.user_id])
  /\ UNCHANGED <<passwordResetTokens, generated, resets>>
  /\ UNCHANGED <<pipelineVars, storageVars, rbacCall, permissionVars>>

\* AuthService.singIn
SingIn(p, email, password) ==
  /\ authPc[p] = "idle" /\ authStarted < MaxAuthCalls
  /\ authStarted' = authStarted + 1
  /\ LET found == authUsers[email]
         call(e, logged) == AuthLocal("singIn", email, 0, password, "", e, logged)
         failed(message) == call(ValidationError("email", message), FALSE)
     IN  IF ~found.registered
         THEN \* findByEmail throws the BadRequestError of @repo/types, which
              \* is not an instance of the class the catch block tests
              AuthEnd(p, call(ValidationError("email", "An error occurred during login"), TRUE))
         ELSE IF ~found.verified
         THEN AuthEnd(p, failed("Email not verified. Please check your inbox."))
         ELSE IF found.status # "active"
         THEN AuthEnd(p, failed("Your account is inactive. Please contact support."))
         ELSE IF ~compareHash(password, found.password)
         THEN AuthEnd(p, failed("Invalid email or password"))
         ELSE AuthEnd(p, [call(NoError, FALSE) EXCEPT !.user_id = email])
  /\ UNCHANGED <<authUsers, emailVerifications, passwordResetTokens, generated, resets>>
  /\ UNCHANGED <<pipelineVars, storageVars, rbacCall, permissionVars>>

\* a seeded, verified user; a user as register leaves it, with its
\* verification token; an email without user
InitAuthUsers ==
  [email \in Emails |->
     CASE email = "v@x.io" -> UserRow(generateHash("pw1"), "pw1", "seed", TRUE)
       [] email = "u@x.io" ->
            UserRepository_create([password |-> generateHash("pw1"), given |-> "pw1"])
       [] OTHER -> NoUser]

InitAuth ==
  /\ requireAuth = TRUE
  /\ cache = [provider |-> FALSE, hasTtl |-> FALSE, ttl |-> 0,
              hasKeyPrefix |-> FALSE, keyPrefix |-> ""]
  /\ users = InitUsers
  /\ user_roles = [id \in UserIds |-> <<>>]
  /\ role_permissions = InitRolePermissions
  /\ cacheStore = [k \in CacheKeys |-> Null]
  /\ InitRequests
  /\ InitEval
  /\ rbacCall = NoCall
  /\ permissions = <<>>
  /\ permCall = NoCall
  /\ authUsers = InitAuthUsers
  /\ emailVerifications = {[user_id |-> "u@x.io", token |-> 0]}
  /\ passwordResetTokens = {}
  /\ generated = 0
  /\ authPc = [p \in AuthProcs |-> "idle"]
  /\ authLocal = [p \in AuthProcs |-> NoAuthCall]
  /\ authStarted = 0
  /\ resets = <<>>

\* the tokens a caller can present
TokenValues == 0..MaxAuthCalls

NextAuth ==
  \/ \E p \in AuthProcs, email \in Emails, password \in Passwords : Register(p, email, password)
  \/ \E p \in AuthProcs, token \in TokenValues : VerifyEmail(p, token)
  \/ \E p \in AuthProcs, email \in Emails, password \in Passwords : SingIn(p, email, password)
  \/ \E p \in AuthProcs, email \in Emails : ForgotPassword(p, email)
  \/ \E p \in AuthProcs : ResetTokensDelete(p)
  \/ \E p \in AuthProcs : ResetTokenInsert(p)
  \/ \E p \in AuthProcs : SendPasswordResetEmail(p)
  \/ \E p \in AuthProcs, token \in TokenValues, password \in Passwords :
       ResetPassword(p, token, password)
  \/ \E p \in AuthProcs : ResetPasswordTx(p)
  \/ \E p \in AuthProcs : AuthReturn(p)

SpecAuth == InitAuth /\ [][NextAuth]_vars

\* C28: forgotPassword(email) throws nothing and returns the same (nothing)
\* whether email has no user, an unverified user or a verified one, also when
\* the lookup, the storing of the token or the mail fails.
C28_ForgotPasswordIsSilent ==
  \A p \in AuthProcs :
    (authLocal[p].op = "forgotPassword" /\ authPc[p] = "done") =>
      /\ authLocal[p].error = NoError
      /\ \A q \in AuthProcs :
           (authLocal[q].op = "forgotPassword" /\ authPc[q] = "done") =>
             authLocal[q].error = authLocal[p].error

\* one call for an email without user and one for a verified user whose
\* reset mail could not be sent have both returned
C28_Witness ==
  \E p, q \in AuthProcs :
    /\ authPc[p] = "done" /\ authLocal[p].op = "forgotPassword"
    /\ authLocal[p].email = "n@x.io" /\ ~authLocal[p].logged
    /\ authPc[q] = "done" /\ authLocal[q].op = "forgotPassword"
    /\ authLocal[q].email = "v@x.io" /\ authLocal[q].logged
    /\ rowsOfUser(passwordResetTokens, "v@x.io") # {}

\* C29: a user who registered with email e and password p through register
\* and whose email was verified since signs in with singIn(e, p).
C29_RegisteredUserSignsIn ==
  [][\A p \in AuthProcs :
       (/\ authPc[p] = "idle" /\ authLocal'[p].op = "singIn"
        /\ authUsers[authLocal'[p].email].registered
        /\ authUsers[authLocal'[p].email].origin = "register"
        /\ authUsers[authLocal'[p].email].given = authLocal'[p].password
        /\ authUsers[authLocal'[p].email].verified) =>
         authLocal'[p].error = NoError]_vars

\* C30: at most one password reset token is stored per user and none right
\* after a successful resetPassword of the user; no token changes a password
\* twice, and none does once a newer token has been issued to the user,
\* however the calls of forgotPassword and resetPassword interleave.
C30_ResetTokens ==
  [][/\ \A email \in Emails : Cardinality(rowsOfUser(passwordResetTokens', email)) <= 1
     /\ NoDup(resets')
     /\ \A p \in AuthProcs :
          (authPc[p] = "resetTx" /\ authPc'[p] = "done" /\ authLocal'[p].error = NoError) =>
            /\ rowsOfUser(passwordResetTokens', authLocal[p].user_id) = {}
            /\ \A row \in rowsOfUser(passwordResetTokens, authLocal[p].user_id) :
                 row.token <= authLocal[p].token]_vars

====
